---- MODULE Spec2Model ----
(***************************************************************************)
(* Model of the two hooks of the dev-accelerator plugin:                   *)
(*   hooks/on-file-change.js   (advise)                                    *)
(*   hooks/on-prompt-submit.js (classify)                                  *)
(* and of the tool handlers of mcp-servers/github-server.js.               *)
(* Strings of the program (paths, prompts) are sequences of one-character  *)
(* strings, so that basename, extname, includes, toLowerCase and the       *)
(* regular expressions are computed and not assumed.  File contents are    *)
(* sequences of lexical tokens ("\n", "console.log(", ...).                *)
(***************************************************************************)
EXTENDS Naturals, Integers, Sequences, FiniteSets, TLC

VARIABLES fs, context, notifications, warnings, errors, diag, result, repeat,
          pcontext, presult, pdiag, prepeat,
          gh, mrequest, mresult

vars == <<fs, context, notifications, warnings, errors, diag, result, repeat,
          pcontext, presult, pdiag, prepeat, gh, mrequest, mresult>>

adviseVars == <<fs, context, notifications, warnings, errors, diag, result, repeat>>
classifyVars == <<pcontext, presult, pdiag, prepeat>>

(***************************************************************************)
(* Bounds of the model.                                                    *)
(***************************************************************************)
MaxFiles == 2
MaxPresent == 1
MaxWords == 2

(***************************************************************************)
(* Program constants.                                                      *)
(***************************************************************************)
SizeLimit == 600
Window == 100

(***************************************************************************)
(* Character strings.                                                      *)
(***************************************************************************)
LowerChar(c) ==
  CASE c = "A" -> "a" [] c = "B" -> "b" [] c = "C" -> "c" [] c = "D" -> "d"
    [] c = "E" -> "e" [] c = "F" -> "f" [] c = "G" -> "g" [] c = "H" -> "h"
    [] c = "I" -> "i" [] c = "J" -> "j" [] c = "K" -> "k" [] c = "L" -> "l"
    [] c = "M" -> "m" [] c = "N" -> "n" [] c = "O" -> "o" [] c = "P" -> "p"
    [] c = "Q" -> "q" [] c = "R" -> "r" [] c = "S" -> "s" [] c = "T" -> "t"
    [] c = "U" -> "u" [] c = "V" -> "v" [] c = "W" -> "w" [] c = "X" -> "x"
    [] c = "Y" -> "y" [] c = "Z" -> "z" [] OTHER -> c

toLowerCase(s) == [j \in 1..Len(s) |-> LowerChar(s[j])]

includes(s, sub) ==
  \E j \in 1..(Len(s) - Len(sub) + 1) : SubSeq(s, j, j + Len(sub) - 1) = sub

startsWith(s, pre) == Len(pre) <= Len(s) /\ SubSeq(s, 1, Len(pre)) = pre

endsWith(s, suf) ==
  Len(suf) <= Len(s) /\ SubSeq(s, Len(s) - Len(suf) + 1, Len(s)) = suf

LastIndexOf(s, c) ==
  LET I == {j \in 1..Len(s) : s[j] = c}
  IN  IF I = {} THEN 0 ELSE CHOOSE j \in I : \A m \in I : m <= j

(***************************************************************************)
(* Node's path module, for POSIX paths without a trailing slash.           *)
(***************************************************************************)
basename(p) == SubSeq(p, LastIndexOf(p, "/") + 1, Len(p))

extname(p) ==
  LET b == basename(p)
      d == LastIndexOf(b, ".")
  IN  IF d <= 1 THEN <<>> ELSE SubSeq(b, d, Len(b))

basenameExt(p, ext) ==
  LET b == basename(p)
  IN  IF Len(ext) > 0 /\ endsWith(b, ext) /\ b # ext
      THEN SubSeq(b, 1, Len(b) - Len(ext))
      ELSE b

dirname(p) ==
  LET s == LastIndexOf(p, "/")
  IN  IF s = 0 THEN <<".">>
      ELSE IF s = 1 THEN <<"/">>
      ELSE SubSeq(p, 1, s - 1)

join(dir, name) ==
  IF dir = <<".">> THEN name
  ELSE IF dir = <<"/">> THEN <<"/">> \o name
  ELSE dir \o <<"/">> \o name

parentOf(dir) ==
  IF dir = <<".">> THEN <<".", ".">>
  ELSE IF dir = <<"/">> THEN <<"/">>
  ELSE IF LastIndexOf(dir, "/") = 0 THEN <<".">>
  ELSE dirname(dir)

(***************************************************************************)
(* The paths of the model's filesystem.                                    *)
(***************************************************************************)
PathAJs     == <<"/", "r", "/", "a", ".", "j", "s">>
PathATestJs == <<"/", "r", "/", "a", ".", "t", "e", "s", "t", ".", "j", "s">>
PathASpecJs == <<"/", "r", "/", "a", ".", "s", "p", "e", "c", ".", "j", "s">>
PathBGo     == <<"/", "r", "/", "b", ".", "g", "o">>
PathNMd     == <<"/", "r", "/", "n", ".", "m", "d">>
PathPPy     == <<"/", "r", "/", "p", ".", "p", "y">>

Paths == {PathAJs, PathATestJs, PathASpecJs, PathBGo, PathNMd, PathPPy}

\* Variants of these paths: extensions in upper case, and files below a
\* directory named tests, test or __tests__, repo-relative and absolute.
PathUpperJs   == <<"/", "r", "/", "A", ".", "J", "S">>
PathUpperPy   == <<"/", "r", "/", "P", ".", "P", "Y">>
PathRelTests  == <<"t", "e", "s", "t", "s", "/", "c", ".", "j", "s">>
PathRelTest   == <<"t", "e", "s", "t", "/", "c", ".", "j", "s">>
PathRelDunder == <<"_", "_", "t", "e", "s", "t", "s", "_", "_", "/", "c", ".", "j", "s">>
PathAbsTests  == <<"/", "r", "/", "t", "e", "s", "t", "s", "/", "c", ".", "j", "s">>
PathContest   == <<"/", "r", "/", "c", "o", "n", "t", "e", "s", "t", "/", "c", ".", "j", "s">>

VariantPaths ==
  {PathAJs, PathUpperJs, PathPPy, PathUpperPy, PathATestJs, PathRelTests,
   PathRelTest, PathRelDunder, PathAbsTests, PathContest}

AllPaths == Paths \cup VariantPaths

(***************************************************************************)
(* File contents, as token sequences.  A token is a newline, a piece of    *)
(* text the checks look for, or "x" (any other text without a newline).    *)
(***************************************************************************)
Rep(tok, n) == [j \in 1..n |-> tok]

ContentOf(name) ==
  CASE name = "logs"   -> <<"console.log(", "x", "\n", "// TODO", "\n",
                            "console.log(", "\n", "print(", "\n">>
    [] name = "L600"   -> Rep("\n", SizeLimit - 1) \o <<"x">>
    [] name = "L600nl" -> Rep("\n", SizeLimit)
    [] name = "L601"   -> Rep("\n", SizeLimit) \o <<"x">>
    [] name = "longFn" -> <<"function f(){", "x", "}">> \o Rep("\n", Window + 20)
    [] OTHER           -> <<>>

Count(content, tok) == Cardinality({j \in 1..Len(content) : content[j] = tok})

(***************************************************************************)
(* What the lint tool (npx eslint, pylint) does on a file: its exit code   *)
(* and captured stdout, a sequence of words.  A tool that is not installed *)
(* exits non-zero with an empty stdout.                                    *)
(***************************************************************************)
LintPass        == [exit |-> 0, stdout |-> <<>>]
LintErrors2     == [exit |-> 1, stdout |-> <<"x", "error", "x", "error">>]
LintNoErrorWord == [exit |-> 1, stdout |-> <<"x">>]
LintUnavailable == [exit |-> 127, stdout |-> <<>>]
\* The tool never exits: it has no exit status.
LintNeverExits == [exit |-> -1, stdout |-> <<>>]

\* execSync is called without a timeout option: it returns when the child
\* process has exited, and blocks for ever on a child that never exits.
blocks(run) == run.exit < 0

(***************************************************************************)
(* The state of one path of the filesystem.                                *)
(***************************************************************************)
Absent     == [kind |-> "absent", content |-> "none", lint |-> LintUnavailable]
Directory  == [kind |-> "dir", content |-> "none", lint |-> LintErrors2]
Unreadable == [kind |-> "unreadable", content |-> "none", lint |-> LintUnavailable]
RegularFile(c, l) == [kind |-> "file", content |-> c, lint |-> l]

PresentStates ==
  {Directory, Unreadable,
   RegularFile("logs", LintErrors2),
   RegularFile("L600", LintPass),
   RegularFile("L600nl", LintUnavailable),
   RegularFile("L601", LintNoErrorWord)}

FileSystems(P) ==
  UNION {{[p \in P |-> IF p \in S THEN f[p] ELSE Absent] :
            f \in [S -> PresentStates]} :
         S \in {T \in SUBSET P : Cardinality(T) <= MaxPresent}}

\* fs.existsSync
existsSync(p) == p \in DOMAIN fs /\ fs[p].kind # "absent"

\* fs.readFileSync throws on a directory (EISDIR), on a file without read
\* permission (EACCES) and on a missing path (ENOENT).
readThrows(p) == ~(p \in DOMAIN fs /\ fs[p].kind = "file")

ContentNames == {"logs", "L600", "L600nl", "L601", "longFn"}

Tokens == {"\n", "x", "console.log(", "// TODO", "// FIXME", "print(",
           "{", "}", "function f(){", "function g(){"}

\* The number of occurrences of each token in each content, computed once.
Occurrences == [name \in ContentNames |-> [tok \in Tokens |-> Count(ContentOf(name), tok)]]

\* fs.readFileSync of a readable file: the name of its content.
readFileSync(p) == fs[p].content

\* (content.match(/tok/g) || []).length, and content.split(tok).length - 1
matches(content, tok) == Occurrences[content][tok]

\* child_process.execSync of the lint tool on the file
execSync(p) == fs[p].lint

(***************************************************************************)
(* Advisory messages.  A message string is modelled by its template        *)
(* (kind) and the values the template embeds: the base name of the file,   *)
(* a count, and the base name of the suggested test file.  idx is a        *)
(* history field, absent from the program's strings: the position in the   *)
(* batch of the file whose processing pushed the message.                  *)
(***************************************************************************)
Msg(kind, k, base, n, other) ==
  [kind |-> kind, idx |-> k, file |-> base, n |-> n, other |-> other]

DiagRecord(kind, k, file, operation, filesChanged, nn, nw, ne) ==
  [kind |-> kind, idx |-> k, file |-> file, operation |-> operation,
   filesChanged |-> filesChanged, notifications |-> nn, warnings |-> nw,
   errors |-> ne]

pushN(L, m) == [L EXCEPT !.n = Append(@, m)]
\* warnings.unshift: the new entry goes to the front.
pushW_Unshift(L, m) == [L EXCEPT !.w = <<m>> \o @]

pushW(L, m) == [L EXCEPT !.w = Append(@, m)]
throw(L) == [L EXCEPT !.threw = TRUE]

(***************************************************************************)
(* on-file-change.js: helpers                                              *)
(***************************************************************************)
JsExts == {<<".", "j", "s">>, <<".", "j", "s", "x">>,
           <<".", "t", "s">>, <<".", "t", "s", "x">>}

PyExts == {<<".", "p", "y">>}

sourceExts == JsExts \cup PyExts \cup
  {<<".", "j", "a", "v", "a">>, <<".", "g", "o">>, <<".", "r", "s">>,
   <<".", "r", "b">>, <<".", "p", "h", "p">>}

\* const fileName = path.basename(filePath).toLowerCase(); return ... || ...
isTestFile(filePath) ==
  \E fileName \in {toLowerCase(basename(filePath))} :
      \/ includes(fileName, <<".", "t", "e", "s", "t", ".">>)
      \/ includes(fileName, <<".", "s", "p", "e", "c", ".">>)
      \/ includes(fileName, <<"_", "t", "e", "s", "t", ".">>)
      \/ startsWith(fileName, <<"t", "e", "s", "t", "_">>)
      \/ includes(filePath, <<"/", "t", "e", "s", "t", "s", "/">>)
      \/ includes(filePath, <<"/", "t", "e", "s", "t", "/">>)
      \/ includes(filePath, <<"/", "_", "_", "t", "e", "s", "t", "s", "_", "_", "/">>)

isSourceFile(filePath) ==
  extname(filePath) \in sourceExts /\ ~isTestFile(filePath)

\* The four candidate paths built by getTestFilePath, from the directory,
\* the base name without its extension, and the extension.
patternsOf(dirName, baseName, ext) ==
  << join(dirName, baseName \o <<".", "t", "e", "s", "t">> \o ext),
     join(dirName, baseName \o <<".", "s", "p", "e", "c">> \o ext),
     join(join(dirName, <<"_", "_", "t", "e", "s", "t", "s", "_", "_">>),
          baseName \o <<".", "t", "e", "s", "t">> \o ext),
     join(join(parentOf(dirName), <<"t", "e", "s", "t", "s">>),
          baseName \o <<".", "t", "e", "s", "t">> \o ext) >>

testPatterns(filePath) ==
  patternsOf(dirname(filePath), basenameExt(filePath, extname(filePath)),
             extname(filePath))

getTestFilePath_Second(filePath) == testPatterns(filePath)[2]

getTestFilePath(filePath) == testPatterns(filePath)[1]

\* What the program computes from a path alone, computed once per path:
\* path.extname, path.basename, isTestFile, isSourceFile, getTestFilePath.
PathFacts ==
  [p \in AllPaths |->
     [ext |-> extname(p), base |-> basename(p), isTestFile |-> isTestFile(p),
      isSourceFile |-> isSourceFile(p), testFilePath |-> getTestFilePath(p)]]

(***************************************************************************)
(* checkJavaScript.  L is the record of the lists under construction:      *)
(* n (notifications), w (warnings), e (errors), d (console.error records)  *)
(* and threw (an exception is propagating).                                *)
(***************************************************************************)
\* The count taken as content.split("console.log(").length, one too many.
ConsoleLogStep_SplitLength(content, filePath, k, L) ==
  LET consoleLogs == matches(content, "console.log(") + 1
  IN  IF consoleLogs > 0
      THEN pushW(L, Msg("consoleLog", k, PathFacts[filePath].base, consoleLogs, <<>>))
      ELSE L

ConsoleLogStep(content, filePath, k, L) ==
  LET consoleLogs == matches(content, "console.log(")
  IN  IF consoleLogs > 0
      THEN pushW(L, Msg("consoleLog", k, PathFacts[filePath].base, consoleLogs, <<>>))
      ELSE L

TodoStep(content, filePath, k, L) ==
  LET todos == matches(content, "// TODO") + matches(content, "// FIXME")
  IN  IF todos > 0
      THEN pushN(L, Msg("todo", k, PathFacts[filePath].base, todos, <<>>))
      ELSE L

\* The ESLint step that warns on every non-zero exit with output.
EslintStep_WarnOnAnyOutput(filePath, k, L) ==
  IF execSync(filePath).exit = 0
  THEN pushN(L, Msg("eslintPass", k, PathFacts[filePath].base, 0, <<>>))
  ELSE IF Len(execSync(filePath).stdout) > 0
  THEN pushW(L, Msg("eslintIssues", k, PathFacts[filePath].base,
                    Count(execSync(filePath).stdout, "error"), <<>>))
  ELSE L

EslintStep(filePath, k, L) ==
  LET run == execSync(filePath)
      issueCount == Count(run.stdout, "error")
  IN  IF blocks(run) THEN [L EXCEPT !.hung = TRUE]
      ELSE IF run.exit = 0
      THEN pushN(L, Msg("eslintPass", k, PathFacts[filePath].base, 0, <<>>))
      ELSE IF Len(run.stdout) > 0 /\ issueCount > 0
      THEN pushW(L, Msg("eslintIssues", k, PathFacts[filePath].base, issueCount, <<>>))
      ELSE L

\* Tokens matched by /function\s+\w+\s*\([^)]*\)\s*\{/ ; each holds one "{".
FunctionTokens == {"function f(){", "function g(){"}

indexOf(content, tok) ==
  CHOOSE j \in 1..Len(content) :
    content[j] = tok /\ \A m \in 1..(j - 1) : content[m] # tok

\* s.split('\n').slice(0, w).join('\n'): the text before the w-th newline.
firstLines(s, w) ==
  IF Count(s, "\n") < w THEN s
  ELSE LET cut == CHOOSE j \in 1..Len(s) :
                    s[j] = "\n" /\ Count(SubSeq(s, 1, j), "\n") = w
       IN  SubSeq(s, 1, cut - 1)

braceCount(lines) ==
  Cardinality({j \in 1..Len(lines) : lines[j] \in FunctionTokens \cup {"{"}})
    - Count(lines, "}")

\* The for loop over the matched declarations, on the text of a content.
looksLong(text) ==
  LET functions == {text[j] : j \in {m \in 1..Len(text) : text[m] \in FunctionTokens}}
      long(func) ==
        LET funcBody == SubSeq(text, indexOf(text, func), Len(text))
            lines == firstLines(funcBody, Window)
        IN  Count(lines, "\n") + 1 > Window /\ braceCount(lines) = 0
  IN  \E func \in functions : long(func)

\* looksLong of each content, computed once.
LooksLong == [name \in ContentNames |-> looksLong(ContentOf(name))]

LongFunctionStep(content, filePath, k, L) ==
  IF L.hung THEN L
  ELSE IF LooksLong[content]
  THEN pushW(L, Msg("longFunction", k, PathFacts[filePath].base, 0, <<>>))
  ELSE L

checkJavaScript(filePath, k, L) ==
  IF ~existsSync(filePath) THEN L
  ELSE IF readThrows(filePath) THEN throw(L)
  ELSE LET content == readFileSync(filePath)
       IN  LongFunctionStep(content, filePath, k,
             EslintStep(filePath, k,
               TodoStep(content, filePath, k,
                 ConsoleLogStep(content, filePath, k, L))))

(***************************************************************************)
(* checkPython                                                             *)
(***************************************************************************)
PrintStep(content, filePath, k, L) ==
  LET prints == matches(content, "print(")
  IN  IF prints > 0
      THEN pushW(L, Msg("print", k, PathFacts[filePath].base, prints, <<>>))
      ELSE L

PylintStep(filePath, k, L) ==
  LET run == execSync(filePath)
  IN  IF blocks(run) THEN [L EXCEPT !.hung = TRUE]
      ELSE IF run.exit = 0
      THEN pushN(L, Msg("pylintPass", k, PathFacts[filePath].base, 0, <<>>))
      ELSE IF Len(run.stdout) > 0
      THEN pushW(L, Msg("pylintIssues", k, PathFacts[filePath].base, 0, <<>>))
      ELSE L

checkPython(filePath, k, L) ==
  IF ~existsSync(filePath) THEN L
  ELSE IF readThrows(filePath) THEN throw(L)
  ELSE PylintStep(filePath, k, PrintStep(readFileSync(filePath), filePath, k, L))

(***************************************************************************)
(* The body of the per-file try block (lines 27-59) and its catch.  Each   *)
(* step is skipped while an exception propagates.                          *)
(***************************************************************************)
\* The JS/TS checks run on every file, whatever its extension.
JavaScriptChecks_AnyExt(ext, filePath, k, L) == checkJavaScript(filePath, k, L)

\* if (['.js', '.jsx', '.ts', '.tsx'].includes(ext)) await checkJavaScript(...)
JavaScriptChecks(ext, filePath, k, L) ==
  IF ext \in JsExts THEN checkJavaScript(filePath, k, L) ELSE L

\* if (ext === '.py') await checkPython(...)
PythonChecks(ext, filePath, k, L) ==
  IF L.threw \/ L.hung THEN L
  ELSE IF ext \in PyExts THEN checkPython(filePath, k, L)
  ELSE L

LanguageChecks(ext, filePath, k, L) ==
  PythonChecks(ext, filePath, k, JavaScriptChecks(ext, filePath, k, L))

TestFileStep(filePath, k, L) ==
  IF L.threw \/ L.hung THEN L
  ELSE IF PathFacts[filePath].isTestFile
  THEN pushN(L, Msg("testFile", k, PathFacts[filePath].base, 0, <<>>))
  ELSE L

MissingTestStep_NoTestGuard(filePath, k, L) ==
  IF L.threw \/ L.hung THEN L
  ELSE IF PathFacts[filePath].ext \in sourceExts
  THEN LET testFilePath == PathFacts[filePath].testFilePath
       IN  IF ~existsSync(testFilePath)
           THEN pushW(L, Msg("missingTest", k, PathFacts[filePath].base, 0, basename(testFilePath)))
           ELSE L
  ELSE L

MissingTestStep(filePath, k, L) ==
  IF L.threw \/ L.hung THEN L
  ELSE IF ~PathFacts[filePath].isTestFile /\ PathFacts[filePath].isSourceFile
  THEN LET testFilePath == PathFacts[filePath].testFilePath
       IN  IF ~existsSync(testFilePath)
           THEN pushW(L, Msg("missingTest", k, PathFacts[filePath].base, 0, basename(testFilePath)))
           ELSE L
  ELSE L

SizeStep(filePath, k, L) ==
  IF L.threw \/ L.hung THEN L
  ELSE IF existsSync(filePath)
  THEN IF readThrows(filePath) THEN throw(L)
       ELSE LET lines == matches(readFileSync(filePath), "\n") + 1
            IN  IF lines > SizeLimit
                THEN pushW(L, Msg("size", k, PathFacts[filePath].base, lines, <<>>))
                ELSE L
  ELSE L

\* The catch block that also reports the failure in the errors list.
CatchStep_PushError(filePath, k, L) ==
  IF L.threw
  THEN [L EXCEPT !.threw = FALSE,
                 !.e = Append(@, Msg("error", k, filePath, 0, <<>>)),
                 !.d = Append(@, DiagRecord("error", k, filePath, "", 0, 0, 0, 0))]
  ELSE L

CatchStep(filePath, k, L) ==
  IF L.threw
  THEN [L EXCEPT !.threw = FALSE,
                 !.d = Append(@, DiagRecord("error", k, filePath, "", 0, 0, 0, 0))]
  ELSE L

\* const ext = path.extname(filePath); try { ... } catch (error) { ... }
ProcessFile(filePath, k, L) ==
  CatchStep(filePath, k,
    SizeStep(filePath, k,
      MissingTestStep(filePath, k,
        TestFileStep(filePath, k,
          LanguageChecks(PathFacts[filePath].ext, filePath, k, L)))))

(***************************************************************************)
(* JavaScript values that may or may not be a string or an array.          *)
(***************************************************************************)
Str(s) == [t |-> "string", v |-> s]
Undefined == [t |-> "undefined", v |-> <<>>]

(***************************************************************************)
(* advise: module.exports of on-file-change.js                             *)
(***************************************************************************)
\* const notifications = []; const warnings = []; const errors = [];
NewList_Hoisted(old) == old

NewList(old) == <<>>

\* The loop that leaves deleted files out.
RECURSIVE Loop_SkipDeleted(_, _, _)
Loop_SkipDeleted(files, k, L) ==
  IF k > Len(files) THEN L
  ELSE IF files[k].filePath.t # "string" THEN [L EXCEPT !.rejected = TRUE]
  ELSE IF files[k].changeType = "deleted" THEN Loop_SkipDeleted(files, k + 1, L)
  ELSE Loop_SkipDeleted(files, k + 1, ProcessFile(files[k].filePath.v, k, L))

\* The for loop from file k on.  path.extname (line 24) is outside the try
\* block and throws a TypeError on a filePath that is not a string: the
\* exception leaves the loop and the function.
RECURSIVE Loop(_, _, _)
Loop(files, k, L) ==
  IF k > Len(files) \/ L.hung THEN L
  ELSE IF files[k].filePath.t # "string" THEN [L EXCEPT !.rejected = TRUE]
  ELSE Loop(files, k + 1, ProcessFile(files[k].filePath.v, k, L))

\* console.error(JSON.stringify({timestamp, operation, filesChanged, ...}))
LogSummary_ToResult(L, ctx) ==
  [L EXCEPT !.n = Append(@, Msg("summary", 0, <<>>, Len(ctx.files), <<>>))]

LogSummary(L, ctx) ==
  [L EXCEPT !.d = Append(@, DiagRecord("summary", 0, <<>>, ctx.operation,
                                       Len(ctx.files), Len(L.n), Len(L.w), Len(L.e)))]

\* The strings of a list, without the history field.
Strings(list) ==
  [j \in 1..Len(list) |->
     [kind |-> list[j].kind, file |-> list[j].file, n |-> list[j].n,
      other |-> list[j].other]]

\* The list returned as it is, empty or not.
Shape_AsIs(list) == [defined |-> TRUE, items |-> Strings(list)]

\* list.length > 0 ? list : undefined
Shape(list) ==
  IF Len(list) > 0 THEN [defined |-> TRUE, items |-> Strings(list)]
  ELSE [defined |-> FALSE, items |-> <<>>]

NoList == [defined |-> FALSE, items |-> <<>>]

NoResult == [status |-> "none", notifications |-> NoList, warnings |-> NoList,
             errors |-> NoList]

Rejected == [status |-> "rejected", notifications |-> NoList, warnings |-> NoList,
             errors |-> NoList]

Operations == {"write", "edit"}

FileChanges ==
  {[filePath |-> Str(p), changeType |-> "modified"] : p \in Paths}
    \cup {[filePath |-> Undefined, changeType |-> "deleted"]}

RECURSIVE SeqsUpTo(_, _)
SeqsUpTo(S, n) ==
  IF n = 0 THEN {<<>>}
  ELSE LET shorter == SeqsUpTo(S, n - 1)
       IN  shorter \cup {Append(s, x) : s \in {q \in shorter : Len(q) = n - 1}, x \in S}

ChangeEvents ==
  {[files |-> f, operation |-> op] : f \in SeqsUpTo(FileChanges, MaxFiles),
                                     op \in Operations}

\* The summary log, when the loop ended without an uncaught exception.
AfterLoop(L, ctx) == IF L.rejected \/ L.hung THEN L ELSE LogSummary(L, ctx)

\* The call up to its return statement: the lists it built, or rejected.
Run(ctx, oldN, oldW, oldE) ==
  AfterLoop(Loop(ctx.files, 1,
                 [n |-> NewList(oldN), w |-> NewList(oldW), e |-> NewList(oldE),
                  d |-> <<>>, threw |-> FALSE, rejected |-> FALSE, hung |-> FALSE]),
            ctx)

Advise(ctx) ==
  \E L \in {Run(ctx, notifications, warnings, errors)} :
      /\ context' = ctx
      /\ notifications' = L.n
      /\ warnings' = L.w
      /\ errors' = L.e
      /\ diag' = L.d
      /\ result' = IF L.hung THEN [Rejected EXCEPT !.status = "blocked"]
                   ELSE IF L.rejected THEN Rejected
                   ELSE [status |-> "returned", notifications |-> Shape(L.n),
                         warnings |-> Shape(L.w), errors |-> Shape(L.e)]
      /\ repeat' = (result.status # "none" /\ ctx = context)
      /\ UNCHANGED fs
      /\ UNCHANGED classifyVars
      /\ UNCHANGED <<gh, mrequest, mresult>>

(***************************************************************************)
(* classify: module.exports of on-prompt-submit.js                         *)
(***************************************************************************)
\* Objects: the set of their own keys and the value of each.
MetaKeys == {"a", "detectedIntent", "suggestions"}

Obj(keys, get) == [keys |-> keys, get |-> [k \in MetaKeys |-> IF k \in keys THEN get[k] ELSE Undefined]]

EmptyObj == Obj({}, [k \in MetaKeys |-> Undefined])

Arr(items) == [t |-> "array", v |-> items]

\* /review|check|analyze.*code/i : "." matches any character but a newline
matchesCodeReview(s) ==
  LET low == toLowerCase(s)
      analyze == <<"a", "n", "a", "l", "y", "z", "e">>
      code == <<"c", "o", "d", "e">>
      at(w, j) == j + Len(w) - 1 <= Len(low) /\ SubSeq(low, j, j + Len(w) - 1) = w
  IN  \/ includes(low, <<"r", "e", "v", "i", "e", "w">>)
      \/ includes(low, <<"c", "h", "e", "c", "k">>)
      \/ \E a \in 1..Len(low) : \E c \in (a + Len(analyze))..Len(low) :
           /\ at(analyze, a)
           /\ at(code, c)
           /\ \A m \in (a + Len(analyze))..(c - 1) : low[m] # "\n"

\* /refactor|clean|improve/i
matchesRefactoring(s) ==
  LET low == toLowerCase(s)
  IN  \/ includes(low, <<"r", "e", "f", "a", "c", "t", "o", "r">>)
      \/ includes(low, <<"c", "l", "e", "a", "n">>)
      \/ includes(low, <<"i", "m", "p", "r", "o", "v", "e">>)

\* /test|spec|coverage/i
matchesTesting(s) ==
  LET low == toLowerCase(s)
  IN  \/ includes(low, <<"t", "e", "s", "t">>)
      \/ includes(low, <<"s", "p", "e", "c">>)
      \/ includes(low, <<"c", "o", "v", "e", "r", "a", "g", "e">>)

\* Object.entries(patterns): the intents in insertion order
patterns == <<"codeReview", "refactoring", "testing">>

patternTest(intent, s) ==
  CASE intent = "codeReview"  -> matchesCodeReview(s)
    [] intent = "refactoring" -> matchesRefactoring(s)
    [] intent = "testing"     -> matchesTesting(s)

\* RegExp.prototype.test converts its argument to a string.
coerceToString(value) ==
  IF value.t = "string" THEN value.v
  ELSE <<"u", "n", "d", "e", "f", "i", "n", "e", "d">>

\* The for loop without its break: the last matching intent stays.
RECURSIVE detectFrom_NoBreak(_, _, _)
detectFrom_NoBreak(j, s, detectedIntent) ==
  IF j > Len(patterns) THEN detectedIntent
  ELSE IF patternTest(patterns[j], s) THEN detectFrom_NoBreak(j + 1, s, patterns[j])
  ELSE detectFrom_NoBreak(j + 1, s, detectedIntent)

\* The for loop from entry j on: the first matching intent, by the break.
RECURSIVE detectFrom(_, _, _)
detectFrom(j, s, detectedIntent) ==
  IF j > Len(patterns) THEN detectedIntent
  ELSE IF patternTest(patterns[j], s) THEN patterns[j]
  ELSE detectFrom(j + 1, s, detectedIntent)

TipSmartReview   == "Tip: Use /smart-review command for structured code review"
TipSmartChecks   == "Smart review checks for bugs, security issues, and best practices"
TipSafeRefactor  == "Tip: The safe-refactoring skill ensures you refactor safely with tests"
TipSmallSteps    == "Remember: refactor in small steps, running tests after each change"
TipGenTests      == "Tip: Use /gen-tests command to generate comprehensive test suites"
TipTestGenerator == "The test-generator subagent can autonomously create tests"

\* The switch with the break of its first case missing.
suggestionsFor_FallThrough(detectedIntent) ==
  CASE detectedIntent = "codeReview"  ->
         <<TipSmartReview, TipSmartChecks, TipSafeRefactor, TipSmallSteps>>
    [] detectedIntent = "refactoring" -> <<TipSafeRefactor, TipSmallSteps>>
    [] detectedIntent = "testing"     -> <<TipGenTests, TipTestGenerator>>
    [] OTHER                          -> <<>>

\* let suggestions = []; switch (detectedIntent) { ... }
suggestionsFor(detectedIntent) ==
  CASE detectedIntent = "codeReview"  -> <<TipSmartReview, TipSmartChecks>>
    [] detectedIntent = "refactoring" -> <<TipSafeRefactor, TipSmallSteps>>
    [] detectedIntent = "testing"     -> <<TipGenTests, TipTestGenerator>>
    [] OTHER                          -> <<>>

\* The prompt with a tip appended to it.
enhancedPrompt_WithTip(prompt) ==
  IF prompt.t = "string" THEN Str(prompt.v \o <<" ", "t", "i", "p">>) ELSE prompt

\* let enhancedPrompt = prompt;  (never reassigned)
enhancedPrompt(prompt) == prompt

\* prompt.length and files.length throw a TypeError on undefined.
logThrows(pctx) == pctx.prompt.t = "undefined" \/ pctx.files.t = "undefined"

\* The merge with the spread written last: the keys of the input win.
mergeMetadata_SpreadLast(metadata, detectedIntent, suggestions) ==
  [keys |-> metadata.keys \cup {"detectedIntent", "suggestions"},
   get  |-> [k \in MetaKeys |->
               IF k \in metadata.keys THEN metadata.get[k]
               ELSE IF k = "detectedIntent" THEN Str(<<detectedIntent>>)
               ELSE IF k = "suggestions"
               THEN (IF Len(suggestions) > 0 THEN Arr(suggestions) ELSE Undefined)
               ELSE metadata.get[k]]]

\* { ...metadata, detectedIntent, suggestions: suggestions.length > 0 ? suggestions : undefined }
\* The merge that keeps a detectedIntent the input already has.
mergeMetadata_KeepIntent(metadata, detectedIntent, suggestions) ==
  [keys |-> metadata.keys \cup {"detectedIntent", "suggestions"},
   get  |-> [k \in MetaKeys |->
               IF k = "detectedIntent"
               THEN (IF k \in metadata.keys THEN metadata.get[k] ELSE Str(<<detectedIntent>>))
               ELSE IF k = "suggestions"
               THEN (IF Len(suggestions) > 0 THEN Arr(suggestions) ELSE Undefined)
               ELSE metadata.get[k]]]

mergeMetadata(metadata, detectedIntent, suggestions) ==
  [keys |-> metadata.keys \cup {"detectedIntent", "suggestions"},
   get  |-> [k \in MetaKeys |->
               IF k = "detectedIntent" THEN Str(<<detectedIntent>>)
               ELSE IF k = "suggestions"
               THEN (IF Len(suggestions) > 0 THEN Arr(suggestions) ELSE Undefined)
               ELSE metadata.get[k]]]

NoPromptResult == [status |-> "none", prompt |-> Undefined, metadata |-> EmptyObj]

Classify(pctx) ==
  LET detectedIntent == detectFrom(1, coerceToString(pctx.prompt), "general")
      suggestions == suggestionsFor(detectedIntent)
  IN  /\ pcontext' = pctx
      /\ IF logThrows(pctx)
         THEN /\ presult' = [status |-> "rejected", prompt |-> Undefined,
                             metadata |-> EmptyObj]
              /\ pdiag' = <<>>
         ELSE /\ presult' = [status |-> "returned", prompt |-> enhancedPrompt(pctx.prompt),
                             metadata |-> mergeMetadata(pctx.metadata, detectedIntent,
                                                        suggestions)]
              /\ pdiag' = <<[intent |-> detectedIntent,
                             promptLength |-> Len(pctx.prompt.v),
                             filesContext |-> Len(pctx.files.v)]>>
      /\ prepeat' = (presult.status # "none" /\ pctx = pcontext)
      /\ UNCHANGED adviseVars
      /\ UNCHANGED <<gh, mrequest, mresult>>

(***************************************************************************)
(* The prompts: up to MaxWords words of a vocabulary that holds every      *)
(* alternative of the three patterns, and the prompt of the README.        *)
(***************************************************************************)
Vocabulary ==
  {<<"r", "e", "v", "i", "e", "w">>, <<"c", "h", "e", "c", "k">>,
   <<"a", "n", "a", "l", "y", "z", "e">>, <<"c", "o", "d", "e">>,
   <<"R", "e", "f", "a", "c", "t", "o", "r">>, <<"c", "l", "e", "a", "n">>,
   <<"i", "m", "p", "r", "o", "v", "e">>, <<"T", "E", "S", "T">>,
   <<"i", "n", "s", "p", "e", "c", "t">>, <<"c", "o", "v", "e", "r", "a", "g", "e">>,
   <<"h", "e", "l", "l", "o">>, <<"\n">>}

RECURSIVE joinWords(_)
joinWords(ws) ==
  IF Len(ws) = 0 THEN <<>>
  ELSE IF Len(ws) = 1 THEN ws[1]
  ELSE ws[1] \o <<" ">> \o joinWords(Tail(ws))

PromptReadme ==
  <<"p", "l", "e", "a", "s", "e", " ", "r", "e", "f", "a", "c", "t", "o", "r", " ",
    "t", "h", "i", "s", " ", "m", "e", "s", "s", "y", " ",
    "f", "u", "n", "c", "t", "i", "o", "n">>

\* Prompts that ask for the two other intents the README names.
PromptDebug ==
  <<"d", "e", "b", "u", "g", " ", "t", "h", "i", "s", " ", "c", "r", "a", "s", "h">>

PromptDocs ==
  <<"w", "r", "i", "t", "e", " ", "d", "o", "c", "u", "m", "e", "n", "t", "a", "t", "i", "o", "n">>

Prompts ==
  {joinWords(ws) : ws \in SeqsUpTo(Vocabulary, MaxWords)}
    \cup {PromptReadme, PromptDebug, PromptDocs}

Metadatas ==
  {EmptyObj,
   Obj({"a"}, [k \in MetaKeys |-> [t |-> "number", v |-> <<"1">>]]),
   Obj({"a", "detectedIntent", "suggestions"},
       [k \in MetaKeys |-> IF k = "suggestions" THEN Arr(<<"old tip">>)
                           ELSE Str(<<"old">>)])}

PromptEvents ==
  {[prompt |-> Str(p), files |-> f, metadata |-> m] :
     p \in Prompts, f \in {Arr(<<>>), Arr(<<"f">>)}, m \in Metadatas}
    \cup {[prompt |-> Undefined, files |-> Arr(<<>>), metadata |-> EmptyObj],
          [prompt |-> Str(<<>>), files |-> Undefined, metadata |-> EmptyObj]}

(***************************************************************************)
(* The GitHub MCP server: mcp-servers/github-server.js.  A text is the     *)
(* sequence of the pieces it is concatenated from.  cli and stdout are     *)
(* history fields of a result, absent from what the handler returns:       *)
(* whether the GitHub CLI was run and how it ended, and what it printed.   *)
(***************************************************************************)
\* The tools of the ListTools handler.
ListedTools == <<"get_pr_info", "list_pr_files", "get_commit_info", "create_pr_comment">>

\* ${x} in a template literal: a number gives its digits, a string itself.
interpolate(x) ==
  IF x.t = "undefined" THEN <<"u", "n", "d", "e", "f", "i", "n", "e", "d">> ELSE x.v

\* body.replace(/"/g, '\\"')
RECURSIVE replaceQuotes(_)
replaceQuotes(body) ==
  IF body = <<>> THEN <<>>
  ELSE (IF Head(body) = "\"" THEN <<"\\", "\"">> ELSE <<Head(body)>>)
         \o replaceQuotes(Tail(body))

\* `${owner}/${repo}`
slug(args) == interpolate(args.owner) \o <<"/">> \o interpolate(args.repo)

\* execSync of a gh command.  The CLI is installed and authenticated or
\* not; GitHub holds the repository o/r with pull request 12 and commit abc.
ghExec(sub, target, repo, rest) ==
  IF /\ gh = "ok"
     /\ repo = <<"o", "/", "r">>
     /\ target = (IF sub = "api" THEN <<"a", "b", "c">> ELSE <<"1", "2">>)
  THEN [ok |-> TRUE, stdout |-> <<"{", sub, rest, "}">>]
  ELSE [ok |-> FALSE, stdout |-> <<>>]

UniformCliError ==
  <<"Error: GitHub CLI (gh) is not available, not authenticated, or you lack permissions. Please install and authenticate the GitHub CLI: https://cli.github.com/">>

\* The catch block of a tool method.
cliError(cli) ==
  [threw |-> FALSE, message |-> <<>>,
   content |-> <<[type |-> "text", text |-> UniformCliError]>>, isError |-> TRUE,
   cli |-> cli, stdout |-> <<>>]

\* const { owner, ... } = args  on args that is undefined
destructureThrows ==
  [threw |-> TRUE,
   message |-> <<"Cannot destructure property 'owner' of 'args' as it is undefined.">>,
   content |-> <<>>, isError |-> FALSE, cli |-> "notRun", stdout |-> <<>>]

\* return { content: [{ type: 'text', text: result }] }
relay(run) ==
  IF run.ok
  THEN [threw |-> FALSE, message |-> <<>>,
        content |-> <<[type |-> "text", text |-> run.stdout]>>, isError |-> FALSE,
        cli |-> "ok", stdout |-> run.stdout]
  ELSE cliError("failed")

getPRInfo(args) ==
  IF args.t = "undefined" THEN destructureThrows
  ELSE relay(ghExec("pr view", interpolate(args.pr_number), slug(args),
                    "--json title,body,author,state,createdAt,updatedAt,additions,deletions,changedFiles"))

listPRFiles(args) ==
  IF args.t = "undefined" THEN destructureThrows
  ELSE relay(ghExec("pr view", interpolate(args.pr_number), slug(args), "--json files"))

getCommitInfo(args) ==
  IF args.t = "undefined" THEN destructureThrows
  ELSE relay(ghExec("api", interpolate(args.sha), slug(args), ""))

commentAdded(run) ==
  IF run.ok
  THEN [threw |-> FALSE, message |-> <<>>,
        content |-> <<[type |-> "text",
                       text |-> <<"{\"success\":true,\"message\":\"Comment added successfully\"}">>]>>,
        isError |-> FALSE, cli |-> "ok", stdout |-> run.stdout]
  ELSE cliError("failed")

\* body.replace is evaluated inside the try block.
createPRComment(args) ==
  IF args.t = "undefined" THEN destructureThrows
  ELSE IF args.body.t # "string" THEN cliError("notRun")
  ELSE commentAdded(ghExec("pr comment", interpolate(args.pr_number), slug(args),
                           replaceQuotes(args.body.v)))

\* The switch without the case of create_pr_comment.
dispatch_NoComment(name, args) ==
  CASE name = "get_pr_info" -> getPRInfo(args)
    [] name = "list_pr_files" -> listPRFiles(args)
    [] name = "get_commit_info" -> getCommitInfo(args)
    [] OTHER -> [threw |-> TRUE, message |-> <<"Unknown tool: ", name>>,
                 content |-> <<>>, isError |-> FALSE, cli |-> "notRun", stdout |-> <<>>]

\* switch (name)
dispatch(name, args) ==
  CASE name = "get_pr_info" -> getPRInfo(args)
    [] name = "list_pr_files" -> listPRFiles(args)
    [] name = "get_commit_info" -> getCommitInfo(args)
    [] name = "create_pr_comment" -> createPRComment(args)
    [] OTHER -> [threw |-> TRUE, message |-> <<"Unknown tool: ", name>>,
                 content |-> <<>>, isError |-> FALSE, cli |-> "notRun", stdout |-> <<>>]

NoArguments ==
  [t |-> "undefined", owner |-> Undefined, repo |-> Undefined, pr_number |-> Undefined,
   sha |-> Undefined, body |-> Undefined]

NoToolResult ==
  [status |-> "none", tools |-> <<>>, content |-> <<>>, isError |-> FALSE,
   cli |-> "notRun", stdout |-> <<>>]

McpIdle ==
  /\ gh = "ok"
  /\ mrequest = [method |-> "", params |-> [name |-> "", arguments |-> NoArguments]]
  /\ mresult = NoToolResult

\* The handler of tools/list.
ListTools ==
  /\ mrequest' = [method |-> "tools/list", params |-> [name |-> "", arguments |-> NoArguments]]
  /\ mresult' = [NoToolResult EXCEPT !.status = "returned", !.tools = ListedTools]
  /\ UNCHANGED gh
  /\ UNCHANGED <<adviseVars, classifyVars>>

\* The handler of tools/call: the try block around the switch, and its catch.
CallTool(request) ==
  \E R \in {dispatch(request.params.name, request.params.arguments)} :
      /\ mrequest' = request
      /\ mresult' = [status |-> "returned", tools |-> <<>>,
                     content |-> IF R.threw
                                 THEN <<[type |-> "text", text |-> <<"Error: ">> \o R.message]>>
                                 ELSE R.content,
                     isError |-> R.threw \/ R.isError,
                     cli |-> R.cli, stdout |-> R.stdout]
      /\ UNCHANGED gh
      /\ UNCHANGED <<adviseVars, classifyVars>>

\* The requests: a listed or unlisted name, and arguments that are absent,
\* complete, incomplete, or of another type than the schema declares.
ToolArguments ==
  {NoArguments}
    \cup {[t |-> "object", owner |-> o, repo |-> Str(<<"r">>), pr_number |-> n,
           sha |-> c, body |-> b] :
            o \in {Str(<<"o">>), Undefined},
            n \in {[t |-> "number", v |-> <<"1", "2">>], Str(<<"1", "2">>),
                   [t |-> "number", v |-> <<"9">>], Undefined},
            c \in {Str(<<"a", "b", "c">>), Undefined},
            b \in {Str(<<"s", "a", "y", " ", "\"", "x", "\"">>), Undefined}}

CallToolRequests ==
  {[method |-> "tools/call", params |-> [name |-> n, arguments |-> a]] :
     n \in {ListedTools[j] : j \in 1..Len(ListedTools)} \cup {"delete_repo", "GET_PR_INFO"},
     a \in ToolArguments}

(***************************************************************************)
(* The specification of advise: a filesystem, and calls of the hook.       *)
(***************************************************************************)
ClassifyIdle ==
  /\ pcontext = [prompt |-> Undefined, files |-> Undefined, metadata |-> EmptyObj]
  /\ presult = NoPromptResult
  /\ pdiag = <<>>
  /\ prepeat = FALSE

Init ==
  /\ fs \in FileSystems(Paths)
  /\ context = [files |-> <<>>, operation |-> ""]
  /\ notifications = <<>>
  /\ warnings = <<>>
  /\ errors = <<>>
  /\ diag = <<>>
  /\ result = NoResult
  /\ repeat = FALSE
  /\ ClassifyIdle
  /\ McpIdle

\* The hook is called on any event ...
FirstCall ==
  /\ result.status = "none"
  /\ \E ctx \in ChangeEvents : Advise(ctx)

\* ... and then once more on the same event, the filesystem unchanged.
SecondCall ==
  /\ result.status # "none"
  /\ ~repeat
  /\ Advise(context)

Next == FirstCall \/ SecondCall

Spec == Init /\ [][Next]_vars

(***************************************************************************)
(* The specification of classify: calls of the hook, on any prompt event.  *)
(***************************************************************************)
InitClassify ==
  /\ fs = [p \in Paths |-> Absent]
  /\ context = [files |-> <<>>, operation |-> ""]
  /\ notifications = <<>>
  /\ warnings = <<>>
  /\ errors = <<>>
  /\ diag = <<>>
  /\ result = NoResult
  /\ repeat = FALSE
  /\ ClassifyIdle
  /\ McpIdle

\* The hook is called on any event ...
FirstPrompt ==
  /\ presult.status = "none"
  /\ \E pctx \in PromptEvents : Classify(pctx)

\* ... and then once more on the same event.
SecondPrompt ==
  /\ presult.status # "none"
  /\ ~prepeat
  /\ Classify(pcontext)

NextClassify == FirstPrompt \/ SecondPrompt

SpecClassify == InitClassify /\ [][NextClassify]_vars

(***************************************************************************)
(* The specification of classify called again and again on one prompt:     *)
(* first with no files and no metadata, then with other files or metadata. *)
(***************************************************************************)
BarePrompt ==
  /\ presult.status = "none"
  /\ \E pctx \in PromptEvents :
       /\ pctx.files = Arr(<<>>)
       /\ pctx.metadata = EmptyObj
       /\ Classify(pctx)

SamePromptAgain ==
  /\ presult.status # "none"
  /\ \E pctx \in PromptEvents :
       /\ pctx.prompt = pcontext.prompt
       /\ pctx # pcontext
       /\ Classify(pctx)

SpecSamePrompt == InitClassify /\ [][BarePrompt \/ SamePromptAgain]_vars

(***************************************************************************)
(* The specification of advise on the variant paths: every variant path is *)
(* absent, or a file with debug prints, or a file with a long function.    *)
(***************************************************************************)
VariantFileSystems ==
  {[p \in VariantPaths |-> Absent],
   [p \in VariantPaths |-> RegularFile("logs", LintErrors2)],
   [p \in VariantPaths |-> RegularFile("longFn", LintPass)]}

VariantEvents ==
  {[files |-> f, operation |-> "edit"] :
     f \in SeqsUpTo({[filePath |-> Str(p), changeType |-> "modified"] : p \in VariantPaths},
                    MaxFiles)}

InitVariants ==
  /\ fs \in VariantFileSystems
  /\ context = [files |-> <<>>, operation |-> ""]
  /\ notifications = <<>>
  /\ warnings = <<>>
  /\ errors = <<>>
  /\ diag = <<>>
  /\ result = NoResult
  /\ repeat = FALSE
  /\ ClassifyIdle
  /\ McpIdle

VariantCall ==
  /\ result.status = "none"
  /\ \E ctx \in VariantEvents : Advise(ctx)

NextVariants == VariantCall

SpecVariants == InitVariants /\ [][NextVariants]_vars

(***************************************************************************)
(* The specification of advise on batches of modified and deleted files,   *)
(* over a filesystem of a JS file, a test file, a Go file and a document.  *)
(***************************************************************************)
ChangedPaths == {PathAJs, PathATestJs, PathBGo, PathNMd}

TypedEvents ==
  {[files |-> f, operation |-> "write"] :
     f \in SeqsUpTo({[filePath |-> Str(p), changeType |-> c] :
                       p \in ChangedPaths, c \in {"modified", "deleted"}}, MaxFiles)}

InitChanges ==
  /\ fs \in FileSystems(ChangedPaths)
  /\ context = [files |-> <<>>, operation |-> ""]
  /\ notifications = <<>>
  /\ warnings = <<>>
  /\ errors = <<>>
  /\ diag = <<>>
  /\ result = NoResult
  /\ repeat = FALSE
  /\ ClassifyIdle
  /\ McpIdle

TypedCall ==
  /\ result.status = "none"
  /\ \E ctx \in TypedEvents : Advise(ctx)

SpecChanges == InitChanges /\ [][TypedCall]_vars

(***************************************************************************)
(* The specification of advise on a JS file and a Python file whose lint   *)
(* tool passes, reports, is unavailable, or never exits.                   *)
(***************************************************************************)
LintFileSystems ==
  [{PathAJs, PathPPy} ->
     {Absent} \cup {RegularFile("logs", l) :
                      l \in {LintPass, LintErrors2, LintNoErrorWord,
                             LintUnavailable, LintNeverExits}}]

LintEvents ==
  {[files |-> f, operation |-> "write"] :
     f \in SeqsUpTo({[filePath |-> Str(p), changeType |-> "modified"] :
                       p \in {PathAJs, PathPPy}}, MaxFiles)}

InitLint ==
  /\ fs \in LintFileSystems
  /\ context = [files |-> <<>>, operation |-> ""]
  /\ notifications = <<>>
  /\ warnings = <<>>
  /\ errors = <<>>
  /\ diag = <<>>
  /\ result = NoResult
  /\ repeat = FALSE
  /\ ClassifyIdle
  /\ McpIdle

LintCall ==
  /\ result.status = "none"
  /\ \E ctx \in LintEvents : Advise(ctx)

SpecLint == InitLint /\ [][LintCall]_vars

(***************************************************************************)
(* The specification of the MCP server: the GitHub CLI works or not, and   *)
(* a client lists the tools or calls one.                                  *)
(***************************************************************************)
InitMcp ==
  /\ fs = [p \in Paths |-> Absent]
  /\ context = [files |-> <<>>, operation |-> ""]
  /\ notifications = <<>>
  /\ warnings = <<>>
  /\ errors = <<>>
  /\ diag = <<>>
  /\ result = NoResult
  /\ repeat = FALSE
  /\ ClassifyIdle
  /\ gh \in {"ok", "unavailable"}
  /\ mrequest = [method |-> "", params |-> [name |-> "", arguments |-> NoArguments]]
  /\ mresult = NoToolResult

ClientListsTools ==
  /\ mresult.status = "none"
  /\ ListTools

ClientCallsTool ==
  /\ mresult.status = "none"
  /\ \E request \in CallToolRequests : CallTool(request)

SpecMcp == InitMcp /\ [][ClientListsTools \/ ClientCallsTool]_vars

(***************************************************************************)
(* The specification of the host: it calls one of the two hooks, on a      *)
(* filesystem that holds one JS file with debug prints.                    *)
(***************************************************************************)
InitHooks ==
  /\ fs = [p \in Paths |-> IF p = PathAJs THEN RegularFile("logs", LintErrors2)
                                          ELSE Absent]
  /\ context = [files |-> <<>>, operation |-> ""]
  /\ notifications = <<>>
  /\ warnings = <<>>
  /\ errors = <<>>
  /\ diag = <<>>
  /\ result = NoResult
  /\ repeat = FALSE
  /\ ClassifyIdle
  /\ McpIdle

HostCallsAdvise ==
  /\ presult.status = "none"
  /\ FirstCall

HostCallsClassify ==
  /\ result.status = "none"
  /\ FirstPrompt

NextHooks == HostCallsAdvise \/ HostCallsClassify

SpecHooks == InitHooks /\ [][NextHooks]_vars

(***************************************************************************)
(* Vocabulary of the properties.                                           *)
(***************************************************************************)
\* The loop reached file k and ran the try block on it.
Processed(k) ==
  /\ result.status # "none"
  /\ k \in 1..Len(context.files)
  /\ \A j \in 1..k : context.files[j].filePath.t = "string"

PathAt(k) == context.files[k].filePath.v

\* The entries of a list that the processing of file k pushed, of one kind.
EntriesOf(list, kind, k) ==
  {j \in 1..Len(list) : list[j].idx = k /\ list[j].kind = kind}

AnyEntryOf(list, k) == \E j \in 1..Len(list) : list[j].idx = k

\* The catch block ran for file k.
Failed(k) == \E j \in 1..Len(diag) : diag[j].kind = "error" /\ diag[j].idx = k

\* The language sub-check of a path raises: the path has a JS/TS or Python
\* extension, exists, and cannot be read as a file.
SubCheckRaises(p) ==
  /\ PathFacts[p].ext \in JsExts \cup PyExts
  /\ fs[p].kind \in {"dir", "unreadable"}

\* The number of lines of a text: every newline ends a line, and a last
\* line without a newline counts too.
TrueLineCount(content) ==
  Count(content, "\n")
    + (IF Len(content) > 0 /\ content[Len(content)] # "\n" THEN 1 ELSE 0)

TrueLines == [name \in ContentNames |-> TrueLineCount(ContentOf(name))]

\* <dir>/<base>.test<ext>, the conventional test file of a path
PrimaryCandidate ==
  [p \in Paths |->
     LET ext == extname(p)
         name == basenameExt(p, ext) \o <<".", "t", "e", "s", "t">> \o ext
     IN  [name |-> name, path |-> join(dirname(p), name)]]

Exists(p) == p \in DOMAIN fs /\ fs[p].kind # "absent"

\* A function declaration of the text is followed by at least Window
\* further lines, and the braces of the first Window lines from the
\* declaration on are balanced.
FollowedByWindow(text) ==
  \E j \in 1..Len(text) :
    /\ text[j] \in FunctionTokens
    /\ \A m \in 1..(j - 1) : text[m] \notin FunctionTokens
    /\ Count(SubSeq(text, j, Len(text)), "\n") >= Window
    /\ braceCount(firstLines(SubSeq(text, j, Len(text)), Window)) = 0

DeclarationFollowedByWindow ==
  [name \in ContentNames |-> FollowedByWindow(ContentOf(name))]

\* The directory segments of a path: the texts between its slashes, the
\* base name left out.
DirSegments(p) ==
  {SubSeq(p, a, b) : a \in 1..Len(p), b \in 1..Len(p)} \cap
  {SubSeq(p, a, b - 1) : a \in {1} \cup {m + 1 : m \in {n \in 1..Len(p) : p[n] = "/"}},
                         b \in {n \in 1..Len(p) : p[n] = "/"}}

NoSlash(seg) == \A j \in 1..Len(seg) : seg[j] # "/"

\* The classification by name that the claim C20 describes.
NamedAsTest(p) ==
  \/ includes(basename(p), <<".", "t", "e", "s", "t", ".">>)
  \/ includes(basename(p), <<".", "s", "p", "e", "c", ".">>)
  \/ includes(basename(p), <<"_", "t", "e", "s", "t", ".">>)
  \/ startsWith(basename(p), <<"t", "e", "s", "t", "_">>)
  \/ \E seg \in DirSegments(p) :
       /\ NoSlash(seg)
       /\ seg \in {<<"t", "e", "s", "t", "s">>, <<"t", "e", "s", "t">>,
                   <<"_", "_", "t", "e", "s", "t", "s", "_", "_">>}

(***************************************************************************)
(* C1: advise never throws or rejects because of one file: whatever a      *)
(* FileChange looks like, every call returns an AdvisoryResult.            *)
(***************************************************************************)
C1_AdviseNeverRejects == result.status # "none" => result.status = "returned"

(***************************************************************************)
(* C2: a file whose analysis failed part-way (its catch block ran) has no  *)
(* entry in the returned notifications, warnings and errors.               *)
(***************************************************************************)
C2_NoEntryForFailedFile ==
  result.status = "returned" =>
    \A k \in 1..Len(context.files) :
      Failed(k) => /\ ~AnyEntryOf(notifications, k)
                   /\ ~AnyEntryOf(warnings, k)
                   /\ ~AnyEntryOf(errors, k)

(***************************************************************************)
(* C3: a call on an empty batch returns, for any operation tag, a result   *)
(* whose notifications, warnings and errors are each absent or empty.      *)
(***************************************************************************)
C3_EmptyBatchEmptyResult ==
  (result.status # "none" /\ context.files = <<>>) =>
    /\ result.status = "returned"
    /\ \A list \in {result.notifications, result.warnings, result.errors} :
         ~list.defined \/ list.items = <<>>

C3_Witness ==
  /\ result.status = "returned"
  /\ context.files = <<>>
  /\ context.operation = "write"
  /\ ~result.notifications.defined

(***************************************************************************)
(* C4 as stated: every file classified as a test file gets exactly one     *)
(* test-file notification and no missing-test warning.                     *)
(***************************************************************************)
C4_Original ==
  \A k \in 1..Len(context.files) :
    (Processed(k) /\ PathFacts[PathAt(k)].isTestFile) =>
      /\ Cardinality(EntriesOf(notifications, "testFile", k)) = 1
      /\ EntriesOf(warnings, "missingTest", k) = {}

(***************************************************************************)
(* C4 amended: a file classified as a test file never gets a missing-test  *)
(* warning, and gets exactly one test-file notification unless its JS/TS   *)
(* or Python sub-check raised (the path exists and cannot be read as a     *)
(* file), and then none; no file gets both advisories.                     *)
(***************************************************************************)
C4_TestFileNotification ==
  \A k \in 1..Len(context.files) :
    Processed(k) =>
      /\ PathFacts[PathAt(k)].isTestFile =>
           /\ EntriesOf(warnings, "missingTest", k) = {}
           /\ Cardinality(EntriesOf(notifications, "testFile", k))
                = (IF SubCheckRaises(PathAt(k)) THEN 0 ELSE 1)
      /\ ~(/\ EntriesOf(notifications, "testFile", k) # {}
           /\ EntriesOf(warnings, "missingTest", k) # {})

C4_Witness ==
  \E k \in 1..Len(context.files) :
    /\ Processed(k)
    /\ result.status = "returned"
    /\ PathFacts[PathAt(k)].isTestFile
    /\ Cardinality(EntriesOf(notifications, "testFile", k)) = 1
    /\ ~Exists(PathFacts[PathAt(k)].testFilePath)

(***************************************************************************)
(* C5 as stated: every non-test file with a source extension gets exactly  *)
(* one missing-test warning naming <base>.test<ext> iff the path           *)
(* <dir>/<base>.test<ext> does not exist.                                  *)
(***************************************************************************)
C5_Original ==
  \A k \in 1..Len(context.files) :
    (/\ Processed(k)
     /\ ~PathFacts[PathAt(k)].isTestFile
     /\ PathFacts[PathAt(k)].ext \in sourceExts) =>
      LET found == EntriesOf(warnings, "missingTest", k)
      IN  /\ Cardinality(found) = (IF Exists(PrimaryCandidate[PathAt(k)].path) THEN 0 ELSE 1)
          /\ \A j \in found : warnings[j].other = PrimaryCandidate[PathAt(k)].name

(***************************************************************************)
(* C5 amended: every non-test file with a source extension whose JS/TS or  *)
(* Python sub-check did not raise gets exactly one missing-test warning    *)
(* naming <base>.test<ext> iff <dir>/<base>.test<ext> does not exist,      *)
(* whatever other candidate exists; when the sub-check raised it gets none.*)
(***************************************************************************)
C5_MissingTestWarning ==
  \A k \in 1..Len(context.files) :
    (/\ Processed(k)
     /\ ~PathFacts[PathAt(k)].isTestFile
     /\ PathFacts[PathAt(k)].ext \in sourceExts) =>
      LET found == EntriesOf(warnings, "missingTest", k)
      IN  /\ Cardinality(found)
               = (IF SubCheckRaises(PathAt(k)) \/ Exists(PrimaryCandidate[PathAt(k)].path)
                  THEN 0 ELSE 1)
          /\ \A j \in found : warnings[j].other = PrimaryCandidate[PathAt(k)].name

C5_Witness ==
  \E k \in 1..Len(context.files) :
    /\ Processed(k)
    /\ PathAt(k) = PathAJs
    /\ Exists(PathASpecJs)
    /\ ~Exists(PathATestJs)
    /\ Cardinality(EntriesOf(warnings, "missingTest", k)) = 1
    /\ result.status = "returned"

(***************************************************************************)
(* C6: an existing file gets the size warning iff its line count is        *)
(* greater than 600; a file of 600 lines whose last line ends with a       *)
(* newline does not get it.                                                *)
(***************************************************************************)
C6_SizeWarningIffOverLimit ==
  \A k \in 1..Len(context.files) :
    (Processed(k) /\ fs[PathAt(k)].kind = "file") =>
      Cardinality(EntriesOf(warnings, "size", k))
        = (IF TrueLines[fs[PathAt(k)].content] > SizeLimit THEN 1 ELSE 0)

(***************************************************************************)
(* C7: an existing JS/TS file with N occurrences of console.log( gets      *)
(* exactly one console.log warning, embedding N, when N > 0 and none when  *)
(* N = 0.                                                                  *)
(***************************************************************************)
C7_ConsoleLogWarning ==
  \A k \in 1..Len(context.files) :
    (Processed(k) /\ PathFacts[PathAt(k)].ext \in JsExts /\ fs[PathAt(k)].kind = "file") =>
      LET N == Occurrences[fs[PathAt(k)].content]["console.log("]
          found == EntriesOf(warnings, "consoleLog", k)
      IN  /\ Cardinality(found) = (IF N > 0 THEN 1 ELSE 0)
          /\ \A j \in found : warnings[j].n = N

C7_Witness ==
  \E k \in 1..Len(context.files) :
    /\ Processed(k)
    /\ PathFacts[PathAt(k)].ext \in JsExts
    /\ fs[PathAt(k)].kind = "file"
    /\ \E j \in EntriesOf(warnings, "consoleLog", k) : warnings[j].n = 2
    /\ result.status = "returned"

(***************************************************************************)
(* C8: a second call with the same ChangeEvent returns the same            *)
(* notifications, warnings and errors as the first, and no call changes    *)
(* the filesystem.                                                         *)
(***************************************************************************)
C8_IdempotentReadOnly ==
  [][/\ fs' = fs
     /\ (result.status # "none" /\ context' = context) => result' = result]_vars

C8_Witness ==
  /\ repeat
  /\ result.status = "returned"
  /\ result.warnings.defined
  /\ result.notifications.defined

(***************************************************************************)
(* C9: the detected intent is the first of codeReview, refactoring,        *)
(* testing whose pattern matches the prompt, wherever the matching words   *)
(* stand, and "general" when none matches.                                 *)
(***************************************************************************)
DetectedIntent == presult.metadata.get["detectedIntent"].v[1]

\* The first intent, in the order codeReview, refactoring, testing, whose
\* pattern matches the text; "general" when none does.
ExpectedIntent(s) ==
  IF matchesCodeReview(s) THEN "codeReview"
  ELSE IF matchesRefactoring(s) THEN "refactoring"
  ELSE IF matchesTesting(s) THEN "testing"
  ELSE "general"

\* The two tips defined for each intent.
ExpectedTips(intent) ==
  CASE intent = "codeReview"  -> <<TipSmartReview, TipSmartChecks>>
    [] intent = "refactoring" -> <<TipSafeRefactor, TipSmallSteps>>
    [] intent = "testing"     -> <<TipGenTests, TipTestGenerator>>
    [] OTHER                  -> <<>>

C9_FirstMatchingIntent ==
  (presult.status = "returned" /\ pcontext.prompt.t = "string") =>
    LET s == pcontext.prompt.v
    IN  DetectedIntent =
          (IF matchesCodeReview(s) THEN "codeReview"
           ELSE IF matchesRefactoring(s) THEN "refactoring"
           ELSE IF matchesTesting(s) THEN "testing"
           ELSE "general")

C9_Witness ==
  /\ presult.status = "returned"
  /\ pcontext.prompt.v = joinWords(<< <<"R", "e", "f", "a", "c", "t", "o", "r">>,
                                      <<"r", "e", "v", "i", "e", "w">> >>)
  /\ DetectedIntent = "codeReview"

(***************************************************************************)
(* C10: the returned suggestions depend on the detected intent alone:      *)
(* each of codeReview, refactoring, testing yields its two tips in order,  *)
(* general yields none; the README prompt yields the refactoring tips.     *)
(***************************************************************************)
C10_SuggestionsByIntent ==
  presult.status = "returned" =>
    LET given == presult.metadata.get["suggestions"]
    IN  /\ DetectedIntent = "codeReview" => given = Arr(<<TipSmartReview, TipSmartChecks>>)
        /\ DetectedIntent = "refactoring" => given = Arr(<<TipSafeRefactor, TipSmallSteps>>)
        /\ DetectedIntent = "testing" => given = Arr(<<TipGenTests, TipTestGenerator>>)
        /\ DetectedIntent = "general" => given = Undefined
        /\ DetectedIntent \in {"codeReview", "refactoring", "testing", "general"}
        /\ pcontext.prompt = Str(PromptReadme) =>
             /\ DetectedIntent = "refactoring"
             /\ given = Arr(<<TipSafeRefactor, TipSmallSteps>>)

C10_Witness ==
  /\ presult.status = "returned"
  /\ pcontext.prompt = Str(PromptReadme)
  /\ presult.metadata.get["suggestions"] = Arr(<<TipSafeRefactor, TipSmallSteps>>)

(***************************************************************************)
(* C11: for a prompt that matches no pattern the intent is "general" and   *)
(* the returned metadata has no suggestions key at all.                    *)
(***************************************************************************)
C11_GeneralNoSuggestionsKey ==
  (/\ presult.status = "returned"
   /\ pcontext.prompt.t = "string"
   /\ ExpectedIntent(pcontext.prompt.v) = "general") =>
    /\ DetectedIntent = "general"
    /\ "suggestions" \notin presult.metadata.keys

(***************************************************************************)
(* C12: the returned metadata keeps every input key other than             *)
(* detectedIntent and suggestions with its value, and holds the newly      *)
(* computed detectedIntent (and suggestions, for a non-general intent)     *)
(* even when the input had those keys.                                     *)
(***************************************************************************)
C12_MetadataPassthrough ==
  (presult.status = "returned" /\ pcontext.prompt.t = "string") =>
    /\ \A k \in pcontext.metadata.keys \ {"detectedIntent", "suggestions"} :
         /\ k \in presult.metadata.keys
         /\ presult.metadata.get[k] = pcontext.metadata.get[k]
    /\ "detectedIntent" \in presult.metadata.keys
    /\ presult.metadata.get["detectedIntent"] =
         Str(<<ExpectedIntent(pcontext.prompt.v)>>)
    /\ ExpectedIntent(pcontext.prompt.v) # "general" =>
         /\ "suggestions" \in presult.metadata.keys
         /\ presult.metadata.get["suggestions"] =
              Arr(ExpectedTips(ExpectedIntent(pcontext.prompt.v)))

C12_Witness ==
  /\ presult.status = "returned"
  /\ pcontext.prompt = Str(PromptReadme)
  /\ pcontext.metadata.keys = {"a", "detectedIntent", "suggestions"}
  /\ pcontext.metadata.get["detectedIntent"] = Str(<<"old">>)
  /\ presult.metadata.get["a"] = pcontext.metadata.get["a"]
  /\ presult.metadata.get["detectedIntent"] = Str(<<"refactoring">>)

(***************************************************************************)
(* C13: a call with an empty prompt or with an absent prompt (and a        *)
(* well-formed files list) completes normally with the intent "general".   *)
(***************************************************************************)
C13_EmptyOrAbsentPromptGeneral ==
  (/\ presult.status # "none"
   /\ pcontext.prompt \in {Undefined, Str(<<>>)}
   /\ pcontext.files.t = "array") =>
    /\ presult.status = "returned"
    /\ DetectedIntent = "general"

(***************************************************************************)
(* C16: a prompt that asks to debug something or to write documentation    *)
(* gets a detected intent of its own: neither the fallback nor one of the  *)
(* intents of review, refactoring and testing.                             *)
(***************************************************************************)
C16_DebugAndDocsIntents ==
  (presult.status = "returned"
     /\ pcontext.prompt \in {Str(PromptDebug), Str(PromptDocs)}) =>
    DetectedIntent \notin {"general", "codeReview", "refactoring", "testing"}

(***************************************************************************)
(* C17: for every PromptEvent (a prompt string, a files sequence) the      *)
(* call returns and the returned prompt equals the input prompt.           *)
(***************************************************************************)
C17_PromptUnchanged ==
  (/\ presult.status # "none"
   /\ pcontext.prompt.t = "string"
   /\ pcontext.files.t = "array") =>
    /\ presult.status = "returned"
    /\ presult.prompt = pcontext.prompt

C17_Witness ==
  /\ presult.status = "returned"
  /\ pcontext.prompt = Str(PromptReadme)
  /\ DetectedIntent = "refactoring"
  /\ presult.prompt = Str(PromptReadme)

(***************************************************************************)
(* C14: every list a handler returns (notifications, warnings, errors of   *)
(* advise, metadata.suggestions of classify) is absent or a non-empty      *)
(* sequence: never an empty array, never null.                             *)
(***************************************************************************)
C14_ListsAbsentOrNonEmpty ==
  /\ result.status = "returned" =>
       \A list \in {result.notifications, result.warnings, result.errors} :
          list.defined => Len(list.items) > 0
  /\ presult.status = "returned" =>
       \/ presult.metadata.get["suggestions"] = Undefined
       \/ /\ presult.metadata.get["suggestions"].t = "array"
          /\ Len(presult.metadata.get["suggestions"].v) > 0

C14_Witness ==
  /\ result.status = "returned"
  /\ result.warnings.defined
  /\ Len(result.warnings.items) > 0
  /\ ~result.errors.defined

(***************************************************************************)
(* C15: every call of advise, however it ends, emits exactly one summary   *)
(* record, with the operation tag, the number of files and the lengths of  *)
(* the three lists.                                                        *)
(***************************************************************************)
C15_OneSummaryRecord ==
  result.status # "none" =>
    /\ Cardinality({j \in 1..Len(diag) : diag[j].kind = "summary"}) = 1
    /\ \A j \in 1..Len(diag) :
         diag[j].kind = "summary" =>
           /\ diag[j].operation = context.operation
           /\ diag[j].filesChanged = Len(context.files)
           /\ diag[j].notifications = Len(notifications)
           /\ diag[j].warnings = Len(warnings)
           /\ diag[j].errors = Len(errors)

(***************************************************************************)
(* C18: an existing JS/TS file in which a function declaration is followed *)
(* by at least 100 further lines, the braces of the scanned window being   *)
(* balanced, gets exactly one long-function warning; no file gets more     *)
(* than one.                                                               *)
(***************************************************************************)
C18_LongFunctionWarning ==
  \A k \in 1..Len(context.files) :
    (Processed(k) /\ PathFacts[PathAt(k)].ext \in JsExts /\ fs[PathAt(k)].kind = "file") =>
      /\ DeclarationFollowedByWindow[fs[PathAt(k)].content] =>
           Cardinality(EntriesOf(warnings, "longFunction", k)) = 1
      /\ Cardinality(EntriesOf(warnings, "longFunction", k)) <= 1

(***************************************************************************)
(* C19: a file whose extension is an upper-case form of a JS/TS extension  *)
(* gets the JS checks, and one with .PY the Python checks, as its          *)
(* lower-case counterpart: the debug prints of a readable file are warned  *)
(* about.                                                                  *)
(***************************************************************************)
C19_DispatchIgnoresCase ==
  \A k \in 1..Len(context.files) :
    (Processed(k) /\ fs[PathAt(k)].kind = "file") =>
      /\ (/\ toLowerCase(PathFacts[PathAt(k)].ext) \in JsExts
          /\ Occurrences[fs[PathAt(k)].content]["console.log("] > 0) =>
           Cardinality(EntriesOf(warnings, "consoleLog", k)) = 1
      /\ (/\ toLowerCase(PathFacts[PathAt(k)].ext) \in PyExts
          /\ Occurrences[fs[PathAt(k)].content]["print("] > 0) =>
           Cardinality(EntriesOf(warnings, "print", k)) = 1

(***************************************************************************)
(* C20: a path is classified as a test file exactly when its base name     *)
(* contains ".test.", ".spec." or "_test.", or starts with "test_", or one *)
(* of its directory segments is tests, test or __tests__ (the first        *)
(* segment of a repo-relative path included).                              *)
(***************************************************************************)
C20_IsTestFileBySegments ==
  \A k \in 1..Len(context.files) :
    Processed(k) =>
      /\ PathFacts[PathAt(k)].isTestFile <=> NamedAsTest(PathAt(k))
      /\ Cardinality(EntriesOf(notifications, "testFile", k)) =
           (IF NamedAsTest(PathAt(k)) THEN 1 ELSE 0)


(***************************************************************************)
(* Vocabulary of the claims about batches of modified and deleted files.   *)
(***************************************************************************)
\* The advisories that come from the content of a file.
ContentKinds ==
  {"consoleLog", "todo", "eslintPass", "eslintIssues", "longFunction",
   "print", "pylintPass", "pylintIssues"}

\* The entries that the processing of file k pushed, of some kinds.
EntriesAmong(list, kinds, k) ==
  {j \in 1..Len(list) : list[j].idx = k /\ list[j].kind \in kinds}

\* The position of a warning in the order of detection within a JS/TS file.
Rank(kind) ==
  CASE kind = "consoleLog" -> 1
    [] kind = "eslintIssues" -> 2
    [] kind = "longFunction" -> 3
    [] kind = "missingTest" -> 4
    [] kind = "size" -> 5
    [] OTHER -> 0

\* The event with every changeType replaced by "modified".
AsModified(ctx) ==
  [ctx EXCEPT !.files =
     [k \in 1..Len(ctx.files) |-> [ctx.files[k] EXCEPT !.changeType = "modified"]]]

\* What a call on an event returns, from empty lists.
Outcome(L) ==
  IF L.rejected THEN Rejected
  ELSE [status |-> "returned", notifications |-> Shape(L.n),
        warnings |-> Shape(L.w), errors |-> Shape(L.e)]

(***************************************************************************)
(* C21: a file whose extension is none of .js .jsx .ts .tsx .py gets no     *)
(* advisory about its content, and still gets the test-file and size       *)
(* checks: a readable .md file of more than 600 lines gets exactly the     *)
(* size warning, a non-test .go file whose <base>.test.go does not exist   *)
(* gets one missing-test warning.                                          *)
(***************************************************************************)
C21_OtherExtensions ==
  \A k \in 1..Len(context.files) :
    (Processed(k) /\ PathFacts[PathAt(k)].ext \notin JsExts \cup PyExts) =>
      /\ EntriesAmong(notifications, ContentKinds, k) = {}
      /\ EntriesAmong(warnings, ContentKinds, k) = {}
      /\ (fs[PathAt(k)].kind = "file" /\ TrueLines[fs[PathAt(k)].content] > SizeLimit) =>
           Cardinality(EntriesOf(warnings, "size", k)) = 1
      /\ (/\ PathFacts[PathAt(k)].ext \notin sourceExts
          /\ ~PathFacts[PathAt(k)].isTestFile) =>
           /\ ~AnyEntryOf(notifications, k)
           /\ \A j \in 1..Len(warnings) : warnings[j].idx = k => warnings[j].kind = "size"
      /\ (/\ PathFacts[PathAt(k)].ext \in sourceExts
          /\ ~PathFacts[PathAt(k)].isTestFile
          /\ ~Exists(PrimaryCandidate[PathAt(k)].path)) =>
           Cardinality(EntriesOf(warnings, "missingTest", k)) = 1

C21_Witness ==
  /\ result.status = "returned"
  /\ \E k \in 1..Len(context.files) :
       /\ Processed(k)
       /\ PathAt(k) = PathNMd
       /\ fs[PathNMd].kind = "file"
       /\ TrueLines[fs[PathNMd].content] > SizeLimit
       /\ Cardinality(EntriesOf(warnings, "size", k)) = 1
       /\ Cardinality({j \in 1..Len(warnings) : warnings[j].idx = k}) = 1
       /\ ~AnyEntryOf(notifications, k)
  /\ \E k \in 1..Len(context.files) :
       /\ Processed(k)
       /\ PathAt(k) = PathBGo
       /\ Cardinality(EntriesOf(warnings, "missingTest", k)) = 1

C24_DetectionOrder ==
  /\ \A a, b \in 1..Len(notifications) :
       a < b => notifications[a].idx <= notifications[b].idx
  /\ \A a, b \in 1..Len(warnings) :
       a < b =>
         /\ warnings[a].idx <= warnings[b].idx
         /\ (/\ warnings[a].idx = warnings[b].idx
             /\ PathFacts[PathAt(warnings[a].idx)].ext \in JsExts) =>
               Rank(warnings[a].kind) < Rank(warnings[b].kind)

C24_Witness ==
  /\ result.status = "returned"
  /\ Len(context.files) = 2
  /\ PathAt(1) = PathAJs
  /\ \E a, b, c, d \in 1..Len(warnings) :
       /\ a < b /\ b < c /\ c < d
       /\ warnings[a].idx = 1 /\ warnings[a].kind = "consoleLog"
       /\ warnings[b].idx = 1 /\ warnings[b].kind = "eslintIssues"
       /\ warnings[c].idx = 1 /\ warnings[c].kind = "missingTest"
       /\ warnings[d].idx = 2

(***************************************************************************)
(* C29: no check adds an entry to errors: after every call the errors list *)
(* of the result is absent, and the summary log counts 0 errors.           *)
(***************************************************************************)
C29_ErrorsAlwaysAbsent ==
  /\ errors = <<>>
  /\ result.status = "returned" => ~result.errors.defined
  /\ \A j \in 1..Len(diag) : diag[j].kind = "summary" => diag[j].errors = 0

C29_Witness ==
  /\ result.status = "returned"
  /\ ~result.errors.defined
  /\ result.warnings.defined
  /\ \E k \in 1..Len(context.files) : Failed(k)
  /\ \E j \in 1..Len(diag) : diag[j].kind = "summary" /\ diag[j].errors = 0

(***************************************************************************)
(* C30: changeType has no influence: the call returns what it returns on   *)
(* the same batch with every changeType replaced by "modified".  A path    *)
(* that does not exist gets no advisory about content or size, and still   *)
(* gets the test-file step: one missing-test warning for a non-test source *)
(* file whose <base>.test<ext> does not exist, one test-file notification  *)
(* for a test file.                                                        *)
(***************************************************************************)
C30_ChangeTypeIgnored ==
  result.status # "none" =>
    /\ result = Outcome(Run(AsModified(context), <<>>, <<>>, <<>>))
    /\ \A k \in 1..Len(context.files) :
         (Processed(k) /\ ~Exists(PathAt(k))) =>
           /\ EntriesAmong(notifications, ContentKinds, k) = {}
           /\ EntriesAmong(warnings, ContentKinds \cup {"size"}, k) = {}
           /\ Cardinality(EntriesOf(notifications, "testFile", k))
                = (IF PathFacts[PathAt(k)].isTestFile THEN 1 ELSE 0)
           /\ Cardinality(EntriesOf(warnings, "missingTest", k))
                = (IF /\ ~PathFacts[PathAt(k)].isTestFile
                      /\ PathFacts[PathAt(k)].ext \in sourceExts
                      /\ ~Exists(PrimaryCandidate[PathAt(k)].path)
                   THEN 1 ELSE 0)

C30_Witness ==
  /\ result.status = "returned"
  /\ Len(context.files) = 2
  /\ context.files[1].changeType = "deleted"
  /\ PathAt(1) = PathBGo
  /\ ~Exists(PathBGo)
  /\ Cardinality(EntriesOf(warnings, "missingTest", 1)) = 1
  /\ context.files[2].changeType = "deleted"
  /\ PathAt(2) = PathATestJs
  /\ ~Exists(PathATestJs)
  /\ Cardinality(EntriesOf(notifications, "testFile", 2)) = 1


(***************************************************************************)
(* C25: when the intent is "general", a suggestions entry of the input     *)
(* metadata is in the returned metadata with its value.                    *)
(***************************************************************************)
C25_GeneralKeepsSuggestions ==
  (/\ presult.status = "returned"
   /\ pcontext.prompt.t = "string"
   /\ DetectedIntent = "general"
   /\ "suggestions" \in pcontext.metadata.keys) =>
    /\ "suggestions" \in presult.metadata.keys
    /\ presult.metadata.get["suggestions"] = pcontext.metadata.get["suggestions"]

(***************************************************************************)
(* C26: two calls with the same prompt return the same detectedIntent and  *)
(* the same suggestions, whatever their files and metadata and whatever    *)
(* was called before; the metadata of the event is what the caller passed. *)
(***************************************************************************)
C26_DeterminedByPrompt ==
  [][presult'.status = "returned" =>
       /\ pcontext'.metadata \in Metadatas
       /\ (presult.status = "returned" /\ pcontext'.prompt = pcontext.prompt) =>
            /\ presult'.metadata.get["detectedIntent"] = presult.metadata.get["detectedIntent"]
            /\ presult'.metadata.get["suggestions"] = presult.metadata.get["suggestions"]
            /\ ("suggestions" \in presult'.metadata.keys)
                 = ("suggestions" \in presult.metadata.keys)]_vars

C26_Witness ==
  /\ presult.status = "returned"
  /\ pcontext.prompt = Str(PromptReadme)
  /\ pcontext.files = Arr(<<"f">>)
  /\ pcontext.metadata.keys = {"a", "detectedIntent", "suggestions"}
  /\ pcontext.metadata.get["detectedIntent"] = Str(<<"old">>)
  /\ presult.metadata.get["detectedIntent"] = Str(<<"refactoring">>)
  /\ presult.metadata.get["suggestions"] = Arr(<<TipSafeRefactor, TipSmallSteps>>)


(***************************************************************************)
(* C23: every call of a lint tool is bounded by a timeout: with a tool     *)
(* that never exits the call of advise still completes, and the lint step  *)
(* of that file gives no advisory, as with an unavailable tool.            *)
(***************************************************************************)
C23_LintBoundedByTimeout ==
  result.status # "none" =>
    /\ result.status = "returned"
    /\ \A k \in 1..Len(context.files) :
         (Processed(k) /\ fs[PathAt(k)].kind = "file" /\ blocks(fs[PathAt(k)].lint)) =>
           /\ EntriesAmong(notifications, {"eslintPass", "pylintPass"}, k) = {}
           /\ EntriesAmong(warnings, {"eslintIssues", "pylintIssues"}, k) = {}


(***************************************************************************)
(* Vocabulary of the claims about the MCP server.                          *)
(***************************************************************************)
CalledName == mrequest.params.name

CalledArguments == mrequest.params.arguments

ResultText == mresult.content[1].text

\* The arguments hold every field the schema of the tool requires, each of
\* the type the schema declares.
WellFormed(name, args) ==
  /\ args.t = "object"
  /\ args.owner.t = "string"
  /\ args.repo.t = "string"
  /\ name \in {"get_pr_info", "list_pr_files", "create_pr_comment"} =>
       args.pr_number.t = "number"
  /\ name = "get_commit_info" => args.sha.t = "string"
  /\ name = "create_pr_comment" => args.body.t = "string"

(***************************************************************************)
(* C27: the handler of tools/call never throws and always returns one text *)
(* content item; a name that is none of the four tools, missing or         *)
(* malformed arguments, and a failure of the GitHub CLI all give isError   *)
(* true, and a failure of the CLI gives the uniform "GitHub CLI (gh) is    *)
(* not available" text.                                                    *)
(***************************************************************************)
C27_CallToolErrorResults ==
  mrequest.method = "tools/call" =>
    /\ mresult.status = "returned"
    /\ Len(mresult.content) = 1
    /\ mresult.content[1].type = "text"
    /\ CalledName \notin {"get_pr_info", "list_pr_files", "get_commit_info",
                          "create_pr_comment"} => mresult.isError
    /\ ~WellFormed(CalledName, CalledArguments) => mresult.isError
    /\ mresult.cli = "failed" => (mresult.isError /\ ResultText = UniformCliError)

(***************************************************************************)
(* C28: the tools that tools/list advertises are get_pr_info,              *)
(* list_pr_files, get_commit_info and create_pr_comment, and they are the  *)
(* names that tools/call dispatches: a call of one of them is never        *)
(* answered with "Unknown tool", a call of another name is; when the CLI   *)
(* succeeds, the three read tools return its stdout as the text, without   *)
(* isError.                                                                *)
(***************************************************************************)
C28_ListedToolsAreDispatched ==
  /\ (mrequest.method = "tools/list" /\ mresult.status = "returned") =>
       {mresult.tools[j] : j \in 1..Len(mresult.tools)}
         = {"get_pr_info", "list_pr_files", "get_commit_info", "create_pr_comment"}
  /\ mrequest.method = "tools/call" =>
       /\ (CalledName \in {ListedTools[j] : j \in 1..Len(ListedTools)})
            = (ResultText # <<"Error: ", "Unknown tool: ", CalledName>>)
       /\ (/\ CalledName \in {"get_pr_info", "list_pr_files", "get_commit_info"}
           /\ mresult.cli = "ok") =>
            /\ ResultText = mresult.stdout
            /\ ~mresult.isError

C28_Witness ==
  /\ mrequest.method = "tools/call"
  /\ CalledName = "get_commit_info"
  /\ mresult.cli = "ok"
  /\ mresult.stdout # <<>>
  /\ ResultText = mresult.stdout
  /\ ~mresult.isError

====
